---------------------------- MODULE Spec2Model ----------------------------
(*************************************************************************)
(* acme-cert-renew.py: load a key=value configuration file, run certbot, *)
(* base64-encode the issued certificate and private key, copy them to a  *)
(* local directory and upsert them into the XC load-balancer API         *)
(* (PUT, then POST when the PUT is answered 404).                        *)
(*                                                                       *)
(* Text is modelled as a sequence of tokens (strings); concatenation and *)
(* f-string interpolation are \o.  Bytes are integers 0..255.            *)
(*************************************************************************)
EXTENDS Integers, Sequences, FiniteSets, TLC

\* ------------------------------------------------------------------ bounds
\* How many times a caller invokes update_xc_lb_certificate in a row.
MaxCalls == 3

\* The longest credential file read, in bytes.
MaxFileLen == 3

\* ------------------------------------------------------------ text helpers
Procs == {"a", "b"}

Whitespace == {" ", "\t", "\n"}

RECURSIVE lstrip(_)
lstrip(s) ==
    IF s # <<>> /\ Head(s) \in Whitespace THEN lstrip(Tail(s)) ELSE s

RECURSIVE rstrip(_)
rstrip(s) ==
    IF s # <<>> /\ s[Len(s)] \in Whitespace
    THEN rstrip(SubSeq(s, 1, Len(s) - 1))
    ELSE s

\* str.strip()
strip(s) == rstrip(lstrip(s))

\* Index of the first "=" of a line, 0 when there is none.
FirstEq(s) ==
    IF \E i \in 1..Len(s) : s[i] = "="
    THEN CHOOSE i \in 1..Len(s) : s[i] = "=" /\ \A j \in 1..(i - 1) : s[j] # "="
    ELSE 0

\* line.split('=', 1): one part when the line has no "=", else two.
split1(s) ==
    LET i == FirstEq(s)
    IN  IF i = 0 THEN << s >>
        ELSE << SubSeq(s, 1, i - 1), SubSeq(s, i + 1, Len(s)) >>

\* f"{n}" of an integer.
Str(n) == ToString(n)

\* --------------------------------------------------------------- base64
B64Alphabet ==
    << "A","B","C","D","E","F","G","H","I","J","K","L","M","N","O","P",
       "Q","R","S","T","U","V","W","X","Y","Z","a","b","c","d","e","f",
       "g","h","i","j","k","l","m","n","o","p","q","r","s","t","u","v",
       "w","x","y","z","0","1","2","3","4","5","6","7","8","9","+","/" >>

B64Char(n) == B64Alphabet[n + 1]

\* b64encode with the padding of the final group left out.
RECURSIVE b64encode_unpadded(_)
b64encode_unpadded(bs) ==
    IF Len(bs) = 0 THEN <<>>
    ELSE IF Len(bs) = 1 THEN
        LET n == bs[1] * 16
        IN  << B64Char(n \div 64), B64Char(n % 64) >>
    ELSE IF Len(bs) = 2 THEN
        LET n == (bs[1] * 256 + bs[2]) * 4
        IN  << B64Char(n \div 4096), B64Char((n \div 64) % 64), B64Char(n % 64) >>
    ELSE
        LET n == bs[1] * 65536 + bs[2] * 256 + bs[3]
        IN  << B64Char(n \div 262144), B64Char((n \div 4096) % 64),
               B64Char((n \div 64) % 64), B64Char(n % 64) >>
            \o b64encode_unpadded(SubSeq(bs, 4, Len(bs)))

\* base64.b64encode(data).decode('utf-8'): three bytes give four characters,
\* a final group of one or two bytes is padded with "=".
RECURSIVE b64encode(_)
b64encode(bs) ==
    IF Len(bs) = 0 THEN <<>>
    ELSE IF Len(bs) = 1 THEN
        LET n == bs[1] * 16
        IN  << B64Char(n \div 64), B64Char(n % 64), "=", "=" >>
    ELSE IF Len(bs) = 2 THEN
        LET n == (bs[1] * 256 + bs[2]) * 4
        IN  << B64Char(n \div 4096), B64Char((n \div 64) % 64), B64Char(n % 64), "=" >>
    ELSE
        LET n == bs[1] * 65536 + bs[2] * 256 + bs[3]
        IN  << B64Char(n \div 262144), B64Char((n \div 4096) % 64),
               B64Char((n \div 64) % 64), B64Char(n % 64) >>
            \o b64encode(SubSeq(bs, 4, Len(bs)))


\* ----------------------------------------------------- configuration file
CONFIG_FILE == "acme-xc.conf"

Line(key, value) == << key, "=", value, "\n" >>

GoodLines ==
    << Line("domain", "example.com"), Line("namespace", "default"),
       Line("cert_name", "cert1"), Line("tenant_name", "acme"),
       Line("acme_server", "https://acme.example/directory") >>

\* Blank lines, surrounding whitespace, a value holding "=", no final newline.
SpacedLines ==
    << << " ", "domain", " ", "=", " ", "example.org", " ", "\n" >>,
       << "\n" >>,
       Line("namespace", "prod"),
       << " ", "\t", "\n" >>,
       Line("cert_name", "cert2"), Line("tenant_name", "acme"),
       << "acme_server", "=", "https://ca.example/dir?x", "=", "1" >> >>

\* The second line has no "=".
MalformedLines ==
    << Line("domain", "example.com"), << "namespace", " ", "default", "\n" >>,
       Line("cert_name", "cert1"), Line("tenant_name", "acme"),
       Line("acme_server", "https://acme.example/directory") >>

\* Well-formed, but tenant_name is not set.
NoTenantLines ==
    << Line("domain", "example.com"), Line("namespace", "default"),
       Line("cert_name", "cert1"),
       Line("acme_server", "https://acme.example/directory") >>

ConfigFiles ==
    { [exists |-> TRUE, lines |-> GoodLines],
      [exists |-> TRUE, lines |-> SpacedLines],
      [exists |-> TRUE, lines |-> MalformedLines],
      [exists |-> TRUE, lines |-> NoTenantLines],
      [exists |-> FALSE, lines |-> <<>>] }

\* config[key] = value
DictPut(d, key, value) ==
    [k \in (DOMAIN d) \cup {key} |-> IF k = key THEN value ELSE d[k]]

\* The loop of load_config over the lines of the file: ok with the dict, or
\* the first stripped non-empty line that does not split in two.
RECURSIVE parse_lines(_, _)
parse_lines(lines, d) ==
    IF lines = <<>> THEN [ok |-> TRUE, config |-> d, line |-> <<>>]
    ELSE LET line == strip(Head(lines))
         IN  IF line = <<>> THEN parse_lines(Tail(lines), d)
             ELSE LET parts == split1(line)
                  IN  IF Len(parts) # 2
                      THEN [ok |-> FALSE, config |-> d, line |-> line]
                      ELSE parse_lines(Tail(lines),
                                       DictPut(d, strip(parts[1]), strip(parts[2])))

\* The keys main reads, in the order main reads them.
ConfigKeys == << "domain", "namespace", "cert_name", "tenant_name", "acme_server" >>

MissingKeys(d) == { i \in 1..Len(ConfigKeys) : << ConfigKeys[i] >> \notin DOMAIN d }

NoConfig ==
    [domain |-> <<>>, namespace |-> <<>>, cert_name |-> <<>>,
     tenant_name |-> <<>>, acme_server |-> <<>>]

\* --------------------------------------------------------- environment
\* os.getenv("XC_TOKEN"): unset (None), set to the empty string, or set.
Unset == [set |-> FALSE, value |-> <<>>]
Tokens == { Unset, [set |-> TRUE, value |-> <<>>], [set |-> TRUE, value |-> << "s3cr3t" >>] }

\* Contents certbot may leave in cert.pem and privkey.pem.
CertContents == { << 67, 69, 82, 84 >>, <<>> }
KeyContents  == { << 75, 69, 89 >>, << 0, 255 >> }

File(data)  == [kind |-> "file", readable |-> TRUE,  data |-> data]
Unreadable  == [kind |-> "file", readable |-> FALSE, data |-> <<>>]
Dir         == [kind |-> "dir",  readable |-> TRUE,  data |-> <<>>]

\* What a path may be after certbot exits 0: written, written but not
\* readable by this process, or not there.
Issued(contents) == { [there |-> TRUE, file |-> File(c)] : c \in contents }
                    \cup { [there |-> TRUE, file |-> Unreadable],
                           [there |-> FALSE, file |-> Unreadable] }

FsPut(f, path, file) ==
    [q \in (DOMAIN f) \cup {path} |-> IF q = path THEN file ELSE f[q]]

FsSet(f, path, w) == IF w.there THEN FsPut(f, path, w.file) ELSE f

\* Paths built by main.
cert_dir(domain)   == << "/etc/letsencrypt/live/" >> \o domain
cert_file_path(domain) == cert_dir(domain) \o << "/", "cert.pem" >>
key_file_path(domain)  == cert_dir(domain) \o << "/", "privkey.pem" >>
domain_dir(domain) == << "/cwd", "/" >> \o domain
cert_target_path(target_dir) == target_dir \o << "/", "cert.pem" >>
key_target_path(target_dir)  == target_dir \o << "/", "privkey.pem" >>

\* ------------------------------------------------------------- exceptions
NoExc == [type |-> "None", msg |-> <<>>]
Exc(type, msg) == [type |-> type, msg |-> msg]

Info(msg)  == [level |-> "INFO",  msg |-> msg]
Error(msg) == [level |-> "ERROR", msg |-> msg]

\* --------------------------------------------------------------- state
VARIABLES
    configFile,   \* the file acme-xc.conf
    environ,      \* environ[p]: XC_TOKEN in the environment of run p
    remote,       \* the certificate objects of the XC API, by address
    fs,           \* fs[p]: the local files of run p, by path
    pc,           \* pc[p]: the step run p is at
    config,       \* config[p]: the values main read from the configuration
    base64_cert,  \* main's base64_cert
    base64_key,   \* main's base64_key
    log,          \* log[p]: the records given to the logger
    io,           \* io[p]: the local calls made (open, subprocess.run, ...)
    sent,         \* sent[p]: the HTTP requests issued
    chan,         \* chan[p]: the HTTP call in flight, its response or failure
    exc,          \* exc[p]: the exception that ended the run
    rcvd,         \* rcvd[p]: what the HTTP calls returned or raised, in order
    calls         \* calls[p]: invocations of update_xc_lb_certificate so far

vars == << configFile, environ, remote, fs, pc, config, base64_cert, base64_key,
           log, io, sent, chan, rcvd, exc, calls >>

\* ------------------------------------------------------- main, in order
\* main_next with the call of copy_cert_and_key left out.
main_next_skip_copy(step) ==
    CASE step = "load_config"              -> "run_certbot_renew"
      [] step = "run_certbot_renew"        -> "encode_cert"
      [] step = "encode_cert"              -> "encode_key"
      [] step = "encode_key"               -> "update_xc_lb_certificate"
      [] step = "copy_cert_and_key"        -> "update_xc_lb_certificate"
      [] step = "update_xc_lb_certificate" -> "returned"

\* The statement main goes on with after a step has returned.
main_next(step) ==
    CASE step = "load_config"              -> "run_certbot_renew"
      [] step = "run_certbot_renew"        -> "encode_cert"
      [] step = "encode_cert"              -> "encode_key"
      [] step = "encode_key"               -> "copy_cert_and_key"
      [] step = "copy_cert_and_key"        -> "update_xc_lb_certificate"
      [] step = "update_xc_lb_certificate" -> "returned"

\* on_error when the except clause of update_xc_lb_certificate logs and
\* does not re-raise.
on_error_request_swallowed(step) ==
    IF step = "update_xc_lb_certificate" THEN main_next(step) ELSE "raised"

\* on_error when run_certbot_renew logs and does not re-raise.
on_error_certbot_swallowed(step) ==
    IF step = "run_certbot_renew" THEN main_next(step) ELSE "raised"

\* on_error when copy_cert_and_key logs and does not re-raise.
on_error_copy_swallowed(step) ==
    IF step = "copy_cert_and_key" THEN main_next(step) ELSE "raised"

\* Where control goes when a step raises: every handler re-raises, main
\* catches nothing, the run ends with the exception.
on_error(step) == "raised"

Terminated(p) == pc[p] \in {"returned", "raised"}

IoCall(op, target) == [op |-> op, target |-> target]

\* A step of main has ended with result r = [exc, logs].
Finish(p, step, r) ==
    /\ log' = [log EXCEPT ![p] = @ \o r.logs]
    /\ exc' = [exc EXCEPT ![p] = r.exc]
    /\ pc'  = [pc EXCEPT ![p] = IF r.exc = NoExc THEN main_next(step)
                                ELSE on_error(step)]

\* load_config() and the five lookups of main.
load_config_result(file) ==
    IF ~file.exists
    THEN [exc |-> Exc("FileNotFoundError", << CONFIG_FILE >>), logs |-> <<>>,
          config |-> NoConfig]
    ELSE LET r == parse_lines(file.lines, <<>>)
         IN  IF ~r.ok
             THEN [exc |-> Exc("ValueError", << "Configuration file format error" >>),
                   logs |-> << Error(<< "Invalid format in configuration file: " >>
                                     \o r.line) >>,
                   config |-> NoConfig]
             ELSE IF MissingKeys(r.config) # {}
             THEN LET i == CHOOSE i \in MissingKeys(r.config) :
                               \A j \in MissingKeys(r.config) : i <= j
                  IN  [exc |-> Exc("KeyError", << ConfigKeys[i] >>), logs |-> <<>>,
                       config |-> NoConfig]
             ELSE [exc |-> NoExc, logs |-> <<>>,
                   config |-> [domain      |-> r.config[<< "domain" >>],
                               namespace   |-> r.config[<< "namespace" >>],
                               cert_name   |-> r.config[<< "cert_name" >>],
                               tenant_name |-> r.config[<< "tenant_name" >>],
                               acme_server |-> r.config[<< "acme_server" >>]]]

load_config(p) ==
    /\ pc[p] = "load_config"
    /\ LET r == load_config_result(configFile)
       IN  /\ config' = [config EXCEPT ![p] = r.config]
           /\ Finish(p, "load_config", r)
    /\ io' = [io EXCEPT ![p] = Append(@, IoCall("open", << CONFIG_FILE >>))]
    /\ UNCHANGED << configFile, environ, remote, fs, base64_cert, base64_key,
                    sent, chan, rcvd, calls >>

certbot_cmd(domain, acme_server) ==
    << "certbot", "certonly", "--standalone", "--non-interactive", "--agree-tos",
       "-m", "test@example.com", "--server" >> \o acme_server \o << "-d" >> \o domain

\* The handling of subprocess.run(..., check=True) by run_certbot_renew:
\* exit 0, a non-zero exit (CalledProcessError), or no certbot to execute.
run_certbot_result(domain, outcome) ==
    CASE outcome = "exit0" ->
           [exc |-> NoExc,
            logs |-> << Info(<< "Successfully obtained certificate with Certbot: " >>
                             \o domain) >>]
      [] outcome = "nonzero" ->
           [exc |-> Exc("CalledProcessError", << "returned non-zero exit status" >>),
            logs |-> << Error(<< "Error occurred while executing Certbot: ",
                                 "returned non-zero exit status" >>) >>]
      [] outcome = "noexec" ->
           [exc |-> Exc("FileNotFoundError", << "certbot" >>), logs |-> <<>>]

CertbotOutcomes == {"exit0", "nonzero", "noexec"}

run_certbot_renew(p) ==
    /\ pc[p] = "run_certbot_renew"
    /\ \E outcome \in CertbotOutcomes :
         /\ Finish(p, "run_certbot_renew",
                   run_certbot_result(config[p].domain, outcome))
         /\ IF outcome = "exit0"
            THEN \E wc \in Issued(CertContents), wk \in Issued(KeyContents) :
                   fs' = [fs EXCEPT ![p] =
                            FsSet(FsSet(@, cert_file_path(config[p].domain), wc),
                                  key_file_path(config[p].domain), wk)]
            ELSE fs' = fs
    /\ io' = [io EXCEPT ![p] =
                Append(@, IoCall("subprocess.run",
                                 certbot_cmd(config[p].domain, config[p].acme_server)))]
    /\ UNCHANGED << configFile, environ, remote, config, base64_cert, base64_key,
                    sent, chan, rcvd, calls >>

\* base64_encode_file(file_path) on the files f.
base64_encode_file(f, file_path) ==
    IF file_path \notin DOMAIN f
    THEN [exc |-> Exc("FileNotFoundError", file_path),
          logs |-> << Error(<< "File not found: " >> \o file_path) >>,
          value |-> <<>>]
    ELSE IF f[file_path].kind = "dir"
    THEN [exc |-> Exc("IsADirectoryError", file_path), logs |-> <<>>, value |-> <<>>]
    ELSE IF ~f[file_path].readable
    THEN [exc |-> Exc("PermissionError", file_path), logs |-> <<>>, value |-> <<>>]
    ELSE [exc |-> NoExc,
          logs |-> << Info(<< "Successfully Base64 encoded file: " >> \o file_path) >>,
          value |-> b64encode(f[file_path].data)]

encode_cert(p) ==
    /\ pc[p] = "encode_cert"
    /\ LET r == base64_encode_file(fs[p], cert_file_path(config[p].domain))
       IN  /\ base64_cert' = [base64_cert EXCEPT ![p] = r.value]
           /\ Finish(p, "encode_cert", r)
    /\ io' = [io EXCEPT ![p] =
                Append(@, IoCall("open", cert_file_path(config[p].domain)))]
    /\ UNCHANGED << configFile, environ, remote, fs, config, base64_key,
                    sent, chan, rcvd, calls >>

encode_key(p) ==
    /\ pc[p] = "encode_key"
    /\ LET r == base64_encode_file(fs[p], key_file_path(config[p].domain))
       IN  /\ base64_key' = [base64_key EXCEPT ![p] = r.value]
           /\ Finish(p, "encode_key", r)
    /\ io' = [io EXCEPT ![p] =
                Append(@, IoCall("open", key_file_path(config[p].domain)))]
    /\ UNCHANGED << configFile, environ, remote, fs, config, base64_cert,
                    sent, chan, rcvd, calls >>

\* copy_cert_and_key: makedirs, copy2 of the certificate, copy2 of the key;
\* fault names the call the operating system fails, if any.  Any exception
\* is logged and re-raised.
CopyFaults == {"none", "makedirs", "copy_cert", "copy_key"}

copy_failed(f, calls_made, target_dir, detail) ==
    [fs |-> f, io |-> calls_made, exc |-> Exc("OSError", << detail >>),
     logs |-> << Error(<< "Error while copying files to " >> \o target_dir
                       \o << ": ", detail >>) >>]

copy_result(f, cert_path, key_path, target_dir, fault) ==
    LET mk  == IoCall("makedirs", target_dir)
        cp1 == IoCall("copy2", cert_path)
        cp2 == IoCall("copy2", key_path)
        f1  == FsPut(f, target_dir, Dir)
        l1  == Info(<< "Copied certificate to: " >> \o cert_target_path(target_dir))
        l2  == Info(<< "Copied private key to: " >> \o key_target_path(target_dir))
    IN  IF fault = "makedirs"
        THEN copy_failed(f, << mk >>, target_dir, "makedirs failed")
        ELSE IF fault = "copy_cert" \/ cert_path \notin DOMAIN f1
        THEN copy_failed(f1, << mk, cp1 >>, target_dir, "copy of cert.pem failed")
        ELSE LET f2 == FsPut(f1, cert_target_path(target_dir), f1[cert_path])
             IN  IF fault = "copy_key" \/ key_path \notin DOMAIN f2
                 THEN [copy_failed(f2, << mk, cp1, cp2 >>, target_dir,
                                   "copy of privkey.pem failed")
                       EXCEPT !.logs = << l1 >> \o @]
                 ELSE [fs |-> FsPut(f2, key_target_path(target_dir), f2[key_path]),
                       io |-> << mk, cp1, cp2 >>, exc |-> NoExc,
                       logs |-> << l1, l2 >>]

copy_cert_and_key(p) ==
    /\ pc[p] = "copy_cert_and_key"
    /\ \E fault \in CopyFaults :
         LET r == copy_result(fs[p], cert_file_path(config[p].domain),
                              key_file_path(config[p].domain),
                              domain_dir(config[p].domain), fault)
         IN  /\ fs' = [fs EXCEPT ![p] = r.fs]
             /\ io' = [io EXCEPT ![p] = @ \o r.io]
             /\ Finish(p, "copy_cert_and_key", r)
    /\ UNCHANGED << configFile, environ, remote, config, base64_cert, base64_key,
                    sent, chan, rcvd, calls >>

\* ------------------------------------------- update_xc_lb_certificate
\* `token is None` in place of `not token`.
token_is_none(token) == ~token.set

\* `not token`
token_missing(token) == ~token.set \/ token.value = <<>>

url(tenant_name, namespace, cert_name) ==
    << "https://" >> \o tenant_name
    \o << ".console.ves.volterra.io/api/config/namespaces/" >> \o namespace
    \o << "/certificates", "/" >> \o cert_name

post_url(tenant_name, namespace) ==
    << "https://" >> \o tenant_name
    \o << ".console.ves.volterra.io/api/config/namespaces/" >> \o namespace
    \o << "/certificates" >>

\* {} in JSON
EmptyObject == <<>>

\* json_data with the two credentials in each other's place.
json_data_swapped(cert_name, namespace, b64_cert, b64_key) ==
    [metadata |-> [name |-> cert_name, namespace |-> namespace],
     spec |-> [certificate_url |-> << "string:///" >> \o b64_key,
               private_key |-> [clear_secret_info |->
                                  [url |-> << "string:///" >> \o b64_cert]],
               disable_ocsp_stapling |-> EmptyObject]]

json_data(cert_name, namespace, b64_cert, b64_key) ==
    [metadata |-> [name |-> cert_name, namespace |-> namespace],
     spec |-> [certificate_url |-> << "string:///" >> \o b64_cert,
               private_key |-> [clear_secret_info |->
                                  [url |-> << "string:///" >> \o b64_key]],
               disable_ocsp_stapling |-> EmptyObject]]

\* post_json_data with the two credentials in each other's place.
post_json_data_swapped(cert_name, b64_cert, b64_key) ==
    [metadata |-> [name |-> cert_name],
     spec |-> [certificate_url |-> << "string:///" >> \o b64_key,
               private_key |-> [clear_secret_info |->
                                  [url |-> << "string:///" >> \o b64_cert]],
               disable_ocsp_stapling |-> EmptyObject]]

post_json_data(cert_name, b64_cert, b64_key) ==
    [metadata |-> [name |-> cert_name],
     spec |-> [certificate_url |-> << "string:///" >> \o b64_cert,
               private_key |-> [clear_secret_info |->
                                  [url |-> << "string:///" >> \o b64_key]],
               disable_ocsp_stapling |-> EmptyObject]]

\* headers with the standard bearer scheme in place of APIToken.
headers_bearer(token, tenant_name) ==
    ("accept" :> << "application/json" >>)
    @@ ("Content-Type" :> << "application/json" >>)
    @@ ("Access-Control-Allow-Origin" :> << "*" >>)
    @@ ("Authorization" :> << "Bearer " >> \o token)
    @@ ("x-volterra-apigw-tenant" :> tenant_name)

headers(token, tenant_name) ==
    ("accept" :> << "application/json" >>)
    @@ ("Content-Type" :> << "application/json" >>)
    @@ ("Access-Control-Allow-Origin" :> << "*" >>)
    @@ ("Authorization" :> << "APIToken " >> \o token)
    @@ ("x-volterra-apigw-tenant" :> tenant_name)

Request(method, to, hdrs, json) ==
    [method |-> method, url |-> to, headers |-> hdrs, json |-> json]

Idle          == [kind |-> "idle",     status_code |-> 0, text |-> ""]
InFlight      == [kind |-> "request",  status_code |-> 0, text |-> ""]
Response(status_code, text) ==
    [kind |-> "response", status_code |-> status_code, text |-> text]
TransportError(detail) == [kind |-> "error", status_code |-> 0, text |-> detail]

Last(s) == s[Len(s)]

\* put_branch with the 404 branch lost: a 404 is an error like any other.
put_branch_no_create(status_code) ==
    IF status_code = 200 THEN "updated" ELSE "error"

\* put_branch creating after a successful update as well.
put_branch_create_after_200(status_code) ==
    IF status_code \in {200, 404} THEN "create" ELSE "error"

\* put_branch taking every 2xx status for success.
put_branch_any_2xx(status_code) ==
    IF status_code \in 200..299 THEN "updated"
    ELSE IF status_code = 404 THEN "create"
    ELSE "error"

\* put_branch falling back to POST on every 4xx status.
put_branch_create_on_4xx(status_code) ==
    IF status_code = 200 THEN "updated"
    ELSE IF status_code \in 400..499 THEN "create"
    ELSE "error"

\* What update_xc_lb_certificate does with the status of the PUT response.
put_branch(status_code) ==
    IF status_code = 200 THEN "updated"
    ELSE IF status_code = 404 THEN "create"
    ELSE "error"

\* post_branch taking 200 for a creation too.
post_branch_200_or_201(status_code) ==
    IF status_code \in {200, 201} THEN "created" ELSE "error"

\* post_branch when a 409 from the POST is taken for a creation.
post_branch_409_ok(status_code) ==
    IF status_code \in {201, 409} THEN "created" ELSE "error"

\* What it does with the status of the POST response.
post_branch(status_code) ==
    IF status_code = 201 THEN "created" ELSE "error"

\* not_found_record with the 404 reported as an error.
not_found_record_as_error ==
    Error(<< "Certificate object not found; attempting to create a new object using POST" >>)

\* The record logged when the PUT is answered 404.
not_found_record ==
    Info(<< "Certificate object not found; attempting to create a new object using POST" >>)

\* request_failed when the except clause logs and does not re-raise.
request_failed_swallowed(detail) ==
    [exc |-> NoExc,
     logs |-> << Error(<< "HTTP request failed: ", detail >>) >>]

\* The except clause: a requests.RequestException is logged and re-raised.
request_failed(detail) ==
    [exc |-> Exc("RequestException", << detail >>),
     logs |-> << Error(<< "HTTP request failed: ", detail >>) >>]

\* Entry: the token check, then the PUT is sent and the call blocks.
update_xc_lb_certificate(p) ==
    /\ pc[p] = "update_xc_lb_certificate"
    /\ calls' = [calls EXCEPT ![p] = @ + 1]
    /\ IF token_missing(environ[p])
       THEN /\ Finish(p, "update_xc_lb_certificate",
                      [exc |-> Exc("ValueError",
                                   << "Environment variable XC_TOKEN is not set" >>),
                       logs |-> << Error(<< "Environment variable 'XC_TOKEN' is not set" >>) >>])
            /\ UNCHANGED << sent, chan >>
       ELSE LET c == config[p]
                u == url(c.tenant_name, c.namespace, c.cert_name)
            IN  /\ log' = [log EXCEPT ![p] =
                             Append(@, Info(<< "Sending PUT request to XC API: " >> \o u))]
                /\ sent' = [sent EXCEPT ![p] =
                              Append(@, Request("PUT", u,
                                                headers(environ[p].value, c.tenant_name),
                                                json_data(c.cert_name, c.namespace,
                                                          base64_cert[p], base64_key[p])))]
                /\ chan' = [chan EXCEPT ![p] = InFlight]
                /\ pc' = [pc EXCEPT ![p] = "put"]
                /\ exc' = exc
    /\ UNCHANGED << configFile, environ, remote, fs, config, base64_cert, base64_key, io,
                    rcvd >>

\* requests.put has returned or raised.
put_response(p) ==
    /\ pc[p] = "put"
    /\ chan[p].kind \in {"response", "error"}
    /\ rcvd' = [rcvd EXCEPT ![p] = Append(@, chan[p])]
    /\ LET c == config[p]
           r == chan[p]
           branch == put_branch(r.status_code)
       IN  IF r.kind = "error"
           THEN /\ Finish(p, "update_xc_lb_certificate", request_failed(r.text))
                /\ chan' = [chan EXCEPT ![p] = Idle]
                /\ sent' = sent
           ELSE IF branch = "updated"
           THEN /\ Finish(p, "update_xc_lb_certificate",
                          [exc |-> NoExc,
                           logs |-> << Info(<< "XC LB certificate updated successfully: ",
                                               Str(r.status_code) >>) >>])
                /\ chan' = [chan EXCEPT ![p] = Idle]
                /\ sent' = sent
           ELSE IF branch = "create"
           THEN LET u == post_url(c.tenant_name, c.namespace)
                IN  /\ log' = [log EXCEPT ![p] = @ \o
                          << not_found_record,
                             Info(<< "Sending POST request to create a new certificate object: " >> \o u) >>]
                    /\ sent' = [sent EXCEPT ![p] =
                                  Append(@, Request("POST", u,
                                                    headers(environ[p].value, c.tenant_name),
                                                    post_json_data(c.cert_name, base64_cert[p],
                                                                   base64_key[p])))]
                    /\ chan' = [chan EXCEPT ![p] = InFlight]
                    /\ pc' = [pc EXCEPT ![p] = "post"]
                    /\ exc' = exc
           ELSE /\ Finish(p, "update_xc_lb_certificate",
                          [exc |-> Exc("Exception", << "Error updating certificate: ",
                                                       Str(r.status_code), " - ", r.text >>),
                           logs |-> << Error(<< "Error updating XC LB certificate: ",
                                                Str(r.status_code), " - ", r.text >>) >>])
                /\ chan' = [chan EXCEPT ![p] = Idle]
                /\ sent' = sent
    /\ UNCHANGED << configFile, environ, remote, fs, config, base64_cert, base64_key,
                    io, calls >>

\* requests.post has returned or raised.
post_response(p) ==
    /\ pc[p] = "post"
    /\ chan[p].kind \in {"response", "error"}
    /\ rcvd' = [rcvd EXCEPT ![p] = Append(@, chan[p])]
    /\ LET r == chan[p]
       IN  Finish(p, "update_xc_lb_certificate",
                  IF r.kind = "error" THEN request_failed(r.text)
                  ELSE IF post_branch(r.status_code) = "created"
                  THEN [exc |-> NoExc,
                        logs |-> << Info(<< "New certificate object created successfully: ",
                                            Str(r.status_code) >>) >>]
                  ELSE [exc |-> Exc("Exception", << "Error creating new certificate: ",
                                                    Str(r.status_code), " - ", r.text >>),
                        logs |-> << Error(<< "Error creating new certificate object: ",
                                             Str(r.status_code), " - ", r.text >>) >>])
    /\ chan' = [chan EXCEPT ![p] = Idle]
    /\ UNCHANGED << configFile, environ, remote, fs, config, base64_cert, base64_key,
                    io, sent, calls >>

\* ------------------------------------------------- the XC API, the network
Statuses == {200, 201, 404, 409, 500}
Texts == {"", "internal error"}

Calling(p, method) ==
    /\ chan[p].kind = "request"
    /\ sent[p] # <<>>
    /\ Last(sent[p]).method = method

\* The API serves a PUT: 200 and the object replaced when there is an object
\* at the address, 404 when there is none.
remote_put(p) ==
    /\ Calling(p, "PUT")
    /\ LET req == Last(sent[p])
       IN  IF req.url \in DOMAIN remote
           THEN /\ remote' = [remote EXCEPT ![req.url] = req.json.spec]
                /\ chan' = [chan EXCEPT ![p] = Response(200, "ok")]
           ELSE /\ remote' = remote
                /\ chan' = [chan EXCEPT ![p] = Response(404, "not found")]
    /\ UNCHANGED << configFile, environ, fs, pc, config, base64_cert, base64_key,
                    log, io, sent, rcvd, exc, calls >>

\* The API serves a POST to the collection: 201 and the object created under
\* its metadata name, 409 when an object of that name exists.
remote_post(p) ==
    /\ Calling(p, "POST")
    /\ LET req  == Last(sent[p])
           addr == req.url \o << "/" >> \o req.json.metadata.name
       IN  IF addr \in DOMAIN remote
           THEN /\ remote' = remote
                /\ chan' = [chan EXCEPT ![p] = Response(409, "already exists")]
           ELSE /\ remote' = FsPut(remote, addr, req.json.spec)
                /\ chan' = [chan EXCEPT ![p] = Response(201, "created")]
    /\ UNCHANGED << configFile, environ, fs, pc, config, base64_cert, base64_key,
                    log, io, sent, rcvd, exc, calls >>

\* The API (or something between) answers with any status and body, and
\* changes nothing.
remote_answer(p) ==
    /\ chan[p].kind = "request"
    /\ \E status_code \in Statuses, text \in Texts :
         chan' = [chan EXCEPT ![p] = Response(status_code, text)]
    /\ UNCHANGED << configFile, environ, remote, fs, pc, config, base64_cert,
                    base64_key, log, io, sent, rcvd, exc, calls >>

\* The call raises a requests.RequestException: the request never arrived,
\* or the response was lost or unreadable.
transport_failure(p) ==
    /\ chan[p].kind \in {"request", "response"}
    /\ chan' = [chan EXCEPT ![p] =
                  TransportError(IF chan[p].kind = "request"
                                 THEN "connection refused" ELSE "read timed out")]
    /\ UNCHANGED << configFile, environ, remote, fs, pc, config, base64_cert,
                    base64_key, log, io, sent, rcvd, exc, calls >>

\* ------------------------------------------------------ one run of main
Identities ==
    { [domain |-> << "example.com" >>, namespace |-> << "default" >>,
       cert_name |-> << "cert1" >>, tenant_name |-> << "acme" >>,
       acme_server |-> << "https://acme.example/directory" >>],
      [domain |-> << "example.org" >>, namespace |-> << "prod" >>,
       cert_name |-> << "cert2" >>, tenant_name |-> << "acme" >>,
       acme_server |-> << "https://ca.example/dir?x", "=", "1" >>] }

\* An object written by an earlier renewal.
OldSpec == json_data(<<>>, <<>>, b64encode(<< 79, 76, 68 >>), b64encode(<< 79 >>)).spec

\* The API before the run: no certificate object, or one for each identity.
RemoteInits ==
    { <<>>,
      [a \in { url(c.tenant_name, c.namespace, c.cert_name) : c \in Identities }
         |-> OldSpec] }

Runner == "a"

Quiet(start) ==
    /\ fs = [p \in Procs |-> <<>>]
    /\ pc = [p \in Procs |-> IF p = Runner THEN start ELSE "off"]
    /\ log = [p \in Procs |-> <<>>]
    /\ io = [p \in Procs |-> <<>>]
    /\ sent = [p \in Procs |-> <<>>]
    /\ rcvd = [p \in Procs |-> <<>>]
    /\ chan = [p \in Procs |-> Idle]
    /\ exc = [p \in Procs |-> NoExc]
    /\ calls = [p \in Procs |-> 0]

Init ==
    /\ configFile \in ConfigFiles
    /\ environ \in { [p \in Procs |-> IF p = Runner THEN t ELSE Unset] : t \in Tokens }
    /\ remote \in RemoteInits
    /\ config = [p \in Procs |-> NoConfig]
    /\ base64_cert = [p \in Procs |-> <<>>]
    /\ base64_key = [p \in Procs |-> <<>>]
    /\ Quiet("load_config")

main(p) ==
    \/ load_config(p)
    \/ run_certbot_renew(p)
    \/ encode_cert(p)
    \/ encode_key(p)
    \/ copy_cert_and_key(p)
    \/ update_xc_lb_certificate(p)
    \/ put_response(p)
    \/ post_response(p)

Next ==
    \E p \in Procs :
      \/ main(p)
      \/ remote_put(p)
      \/ remote_post(p)
      \/ remote_answer(p)
      \/ transport_failure(p)

Spec == Init /\ [][Next]_vars

\* ------------------------ update_xc_lb_certificate called again and again
\* update_xc_lb_certificate alone, on arguments drawn from the identities and
\* credentials above, against an API that holds no object at first and serves
\* every request.
\* The caller calls update_xc_lb_certificate once more with the same
\* arguments, after the previous call has returned or raised.
call_again(p) ==
    /\ Terminated(p)
    /\ calls[p] < MaxCalls
    /\ pc' = [pc EXCEPT ![p] = "update_xc_lb_certificate"]
    /\ log' = [log EXCEPT ![p] = <<>>]
    /\ sent' = [sent EXCEPT ![p] = <<>>]
    /\ rcvd' = [rcvd EXCEPT ![p] = <<>>]
    /\ exc' = [exc EXCEPT ![p] = NoExc]
    /\ UNCHANGED << configFile, environ, remote, fs, config, base64_cert,
                    base64_key, io, chan, calls >>

InitReconcile ==
    /\ configFile = [exists |-> FALSE, lines |-> <<>>]
    /\ environ \in { [p \in Procs |-> IF p = Runner THEN t ELSE Unset] : t \in Tokens }
    /\ remote = <<>>
    /\ config \in { [p \in Procs |-> IF p = Runner THEN c ELSE NoConfig] :
                    c \in Identities }
    /\ base64_cert \in { [p \in Procs |-> IF p = Runner THEN b64encode(c) ELSE <<>>] :
                         c \in CertContents }
    /\ base64_key \in { [p \in Procs |-> IF p = Runner THEN b64encode(k) ELSE <<>>] :
                        k \in KeyContents }
    /\ Quiet("update_xc_lb_certificate")

NextReconcile ==
    \E p \in Procs :
      \/ update_xc_lb_certificate(p)
      \/ put_response(p)
      \/ post_response(p)
      \/ remote_put(p)
      \/ remote_post(p)
      \/ call_again(p)

ReconcileSpec == InitReconcile /\ [][NextReconcile]_vars

\* ---------------------------------------------------------------- outcomes
\* update_xc_lb_certificate returns nothing; how it ended shows in whether it
\* returned or raised, in its last log record and in the exception.
Methods(reqs) == [i \in 1..Len(reqs) |-> reqs[i].method]

TokenGiven(p) == environ[p].set /\ environ[p].value # <<>>

Invoked(p) == calls[p] >= 1

Updated(p) ==
    /\ pc[p] = "returned" /\ exc[p] = NoExc /\ log[p] # <<>>
    /\ Last(log[p]) = Info(<< "XC LB certificate updated successfully: ", "200" >>)

Created(p) ==
    /\ pc[p] = "returned" /\ exc[p] = NoExc /\ log[p] # <<>>
    /\ Last(log[p]) = Info(<< "New certificate object created successfully: ", "201" >>)

\* Failed(p, e): the invocation raised e out of the request section.
Failed(p, e) == pc[p] = "raised" /\ exc[p] = e /\ e.type \in {"Exception", "RequestException"}

ConfigurationError(p) ==
    /\ pc[p] = "raised"
    /\ exc[p] = Exc("ValueError", << "Environment variable XC_TOKEN is not set" >>)

IsResponse(r, status_code) == r.kind = "response" /\ r.status_code = status_code

HasError(p) == \E i \in 1..Len(log[p]) : log[p][i].level = "ERROR"

\* ------------------------------------------------------------------ claims
\* C1 (ReconcileSpec; there the object is absent exactly during the first
\* invocation): an invocation with a non-empty token against an API without
\* the object issues exactly one PUT, gets 404 for it, then issues exactly
\* one POST, and when the POST is answered 201 it ends Created, returning
\* normally, with no further request.
C1_AbsentObjectIsCreated ==
    \A p \in Procs :
      (calls[p] = 1 /\ pc[p] # "update_xc_lb_certificate" /\ TokenGiven(p)) =>
        /\ Methods(sent[p]) \in { << "PUT" >>, << "PUT", "POST" >> }
        /\ (pc[p] = "put" /\ chan[p].kind = "response") => chan[p].status_code = 404
        /\ rcvd[p] # <<>> => IsResponse(rcvd[p][1], 404)
        /\ rcvd[p] # <<>> => Methods(sent[p]) = << "PUT", "POST" >>
        /\ Terminated(p) =>
             /\ Methods(sent[p]) = << "PUT", "POST" >>
             /\ Len(rcvd[p]) = 2
             /\ IsResponse(rcvd[p][2], 201) => (Created(p) /\ chan[p] = Idle)

C1_Witness ==
    \E p \in Procs :
      /\ calls[p] = 1 /\ TokenGiven(p) /\ Created(p)
      /\ Methods(sent[p]) = << "PUT", "POST" >>
      /\ rcvd[p] = << Response(404, "not found"), Response(201, "created") >>
      /\ sent[p][2].json.spec.certificate_url
           = << "string:///", "Q", "0", "V", "S", "V", "A", "=", "=" >>

\* C2: when the PUT is answered 200, exactly one PUT has been issued, no POST
\* is issued in that invocation, and the invocation ends Updated, returning
\* normally.
C2_Put200IsUpdated ==
    \A p \in Procs :
      /\ (pc[p] = "put" /\ IsResponse(chan[p], 200)) => Methods(sent[p]) = << "PUT" >>
      /\ (TokenGiven(p) /\ rcvd[p] # <<>> /\ IsResponse(rcvd[p][1], 200)) =>
           /\ Methods(sent[p]) = << "PUT" >>
           /\ Len(rcvd[p]) = 1
           /\ Updated(p)

C2_Witness ==
    \E p \in Procs :
      /\ TokenGiven(p) /\ rcvd[p] = << Response(200, "ok") >>
      /\ Updated(p) /\ Methods(sent[p]) = << "PUT" >>

\* C3: for every PUT response status other than 200 and 404 the invocation
\* ends Failed with that status and the response body in the exception, no
\* POST is issued and the PUT is not issued again.
C3_PutOtherStatusFails ==
    \A p \in Procs :
      (rcvd[p] # <<>> /\ rcvd[p][1].kind = "response"
         /\ rcvd[p][1].status_code \notin {200, 404}) =>
        /\ Failed(p, Exc("Exception", << "Error updating certificate: ",
                                       Str(rcvd[p][1].status_code), " - ",
                                       rcvd[p][1].text >>))
        /\ Methods(sent[p]) = << "PUT" >>
        /\ Len(rcvd[p]) = 1

C3_Witness ==
    \E p \in Procs :
      /\ rcvd[p] = << Response(500, "internal error") >>
      /\ Failed(p, Exc("Exception", << "Error updating certificate: ", "500", " - ",
                                     "internal error" >>))
      /\ Methods(sent[p]) = << "PUT" >>

\* C4: when the PUT is answered 404 and the POST with a status other than
\* 201, the invocation ends Failed with the status and body of the POST
\* response, in an exception that names the creation, not the update.
C4_PostOtherStatusFails ==
    \A p \in Procs :
      (Len(rcvd[p]) = 2 /\ IsResponse(rcvd[p][1], 404)
         /\ rcvd[p][2].kind = "response" /\ rcvd[p][2].status_code # 201) =>
        /\ Failed(p, Exc("Exception", << "Error creating new certificate: ",
                                       Str(rcvd[p][2].status_code), " - ",
                                       rcvd[p][2].text >>))
        /\ exc[p].msg[1] # "Error updating certificate: "
        /\ Methods(sent[p]) = << "PUT", "POST" >>

C4_Witness ==
    \E p \in Procs :
      /\ rcvd[p] = << Response(404, ""), Response(500, "internal error") >>
      /\ Failed(p, Exc("Exception", << "Error creating new certificate: ", "500", " - ",
                                     "internal error" >>))

\* C5: when XC_TOKEN is unset or empty, the invocation ends with the
\* configuration error and has issued no HTTP request.
C5_NoTokenNoRequest ==
    \A p \in Procs :
      (Invoked(p) /\ (~environ[p].set \/ environ[p].value = <<>>)) =>
        /\ sent[p] = <<>>
        /\ chan[p] = Idle
        /\ ConfigurationError(p)
        /\ HasError(p)

C5_Witness ==
    \E p \in Procs :
      /\ Invoked(p) /\ environ[p].set /\ environ[p].value = <<>>
      /\ ConfigurationError(p) /\ sent[p] = <<>>

\* C6: a transport failure at the PUT or at the POST ends the invocation
\* Failed with the transport error, and no request follows the failed call.
C6_TransportFailureIsTerminal ==
    \A p \in Procs :
      /\ \A i \in 1..(Len(rcvd[p]) - 1) : rcvd[p][i].kind # "error"
      /\ (rcvd[p] # <<>> /\ Last(rcvd[p]).kind = "error") =>
           /\ Failed(p, Exc("RequestException", << Last(rcvd[p]).text >>))
           /\ Len(sent[p]) = Len(rcvd[p])
           /\ Methods(sent[p]) = SubSeq(<< "PUT", "POST" >>, 1, Len(rcvd[p]))
           /\ chan[p] = Idle

C6_Witness ==
    \E p \in Procs :
      /\ Len(rcvd[p]) = 2 /\ rcvd[p][2].kind = "error"
      /\ Failed(p, Exc("RequestException", << rcvd[p][2].text >>))
      /\ Methods(sent[p]) = << "PUT", "POST" >>

\* C7 (ReconcileSpec): the API serves every request, holds no object at
\* first, and update_xc_lb_certificate is called again and again with the
\* same identity, credential and (non-empty) token: the first invocation ends
\* Created, every later one ends Updated, and after every invocation the API
\* holds one object, at the identity's address, with exactly the supplied
\* certificate and private key.
ExpectedObject(p) ==
    [certificate_url |-> << "string:///" >> \o base64_cert[p],
     private_key |-> [clear_secret_info |-> [url |-> << "string:///" >> \o base64_key[p]]],
     disable_ocsp_stapling |-> <<>>]

Address(p) ==
    << "https://" >> \o config[p].tenant_name
    \o << ".console.ves.volterra.io/api/config/namespaces/" >> \o config[p].namespace
    \o << "/certificates", "/" >> \o config[p].cert_name

C7_RepeatedCallsConverge ==
    \A p \in Procs :
      (TokenGiven(p) /\ Terminated(p)) =>
        /\ calls[p] = 1 => Created(p)
        /\ calls[p] > 1 => Updated(p)
        /\ DOMAIN remote = { Address(p) }
        /\ remote[Address(p)] = ExpectedObject(p)

C7_Witness ==
    \E p \in Procs :
      /\ TokenGiven(p) /\ calls[p] >= 2 /\ Updated(p)
      /\ Methods(sent[p]) = << "PUT" >>
      /\ DOMAIN remote = { Address(p) }
      /\ remote[Address(p)] = ExpectedObject(p)

\* C8: in every invocation that passes the token check, whatever is answered,
\* the first request is a PUT, at most one PUT and one POST are issued, and a
\* POST has been issued if and only if the PUT has completed with status 404.
C8_PutFirstPostOnlyAfter404 ==
    \A p \in Procs :
      (Invoked(p) /\ TokenGiven(p)) =>
        /\ Methods(sent[p]) \in { << "PUT" >>, << "PUT", "POST" >> }
        /\ (Methods(sent[p]) = << "PUT", "POST" >>)
             <=> (rcvd[p] # <<>> /\ IsResponse(rcvd[p][1], 404))
        /\ Len(rcvd[p]) <= Len(sent[p])

C8_Witness ==
    \E p \in Procs :
      /\ Invoked(p) /\ TokenGiven(p) /\ Terminated(p)
      /\ Methods(sent[p]) = << "PUT", "POST" >>
      /\ Len(rcvd[p]) = 2 /\ IsResponse(rcvd[p][1], 404)

\* C9: main runs load config, certbot, the two file reads, the copy and the
\* reconciliation in this order and stops at the first failure: after a
\* malformed configuration line, a non-zero exit of certbot or a missing
\* credential file nothing further is done, so no PUT or POST is issued in
\* such a run, and the credential files are not read after a failed issuance.
MainOps == << "open", "subprocess.run", "open", "open", "makedirs", "copy2", "copy2" >>

IoOps(p) == [i \in 1..Len(io[p]) |-> io[p][i].op]

Logged(p, prefix) ==
    \E i \in 1..Len(log[p]) : log[p][i].level = "ERROR" /\ log[p][i].msg[1] = prefix

C9_StepsInOrderAbortOnFirstError ==
    \A p \in Procs :
      /\ Len(io[p]) <= Len(MainOps)
      /\ IoOps(p) = SubSeq(MainOps, 1, Len(io[p]))
      /\ (Invoked(p) \/ sent[p] # <<>>) => Len(io[p]) = Len(MainOps)
      /\ Logged(p, "Invalid format in configuration file: ") =>
           (pc[p] = "raised" /\ IoOps(p) = << "open" >> /\ sent[p] = <<>> /\ ~Invoked(p))
      /\ Logged(p, "Error occurred while executing Certbot: ") =>
           (pc[p] = "raised" /\ IoOps(p) = << "open", "subprocess.run" >>
              /\ sent[p] = <<>> /\ ~Invoked(p))
      /\ Logged(p, "File not found: ") =>
           (pc[p] = "raised" /\ Len(io[p]) \in {3, 4} /\ sent[p] = <<>> /\ ~Invoked(p))

C9_Witness ==
    \E p \in Procs :
      /\ Logged(p, "Error occurred while executing Certbot: ")
      /\ pc[p] = "raised" /\ exc[p].type = "CalledProcessError"
      /\ IoOps(p) = << "open", "subprocess.run" >> /\ sent[p] = <<>>

\* C10: every error ends the run with an exception at the top level, every
\* run that ends so has given the logger at least one ERROR record, and no
\* run that met an error ends as a success.
C10_EveryAbortIsLogged ==
    \A p \in Procs :
      /\ pc[p] = "raised" => (exc[p] # NoExc /\ HasError(p))
      /\ pc[p] = "returned" => (exc[p] = NoExc /\ ~HasError(p))

\* ------------------------------------ the two reads of main on any files
\* encode_cert and encode_key on a certificate and a private key of every
\* content up to MaxFileLen bytes.
FileBytes == {0, 67, 255}

RECURSIVE ByteSeqs(_)
ByteSeqs(n) ==
    IF n = 0 THEN { <<>> }
    ELSE ByteSeqs(n - 1)
         \cup { Append(bs, b) : bs \in { x \in ByteSeqs(n - 1) : Len(x) = n - 1 },
                                b \in FileBytes }

InitEncode ==
    /\ configFile = [exists |-> TRUE, lines |-> GoodLines]
    /\ environ = [p \in Procs |-> Unset]
    /\ remote = <<>>
    /\ config = [p \in Procs |-> IF p = Runner
                                 THEN load_config_result(configFile).config
                                 ELSE NoConfig]
    /\ base64_cert = [p \in Procs |-> <<>>]
    /\ base64_key = [p \in Procs |-> <<>>]
    /\ pc = [p \in Procs |-> IF p = Runner THEN "encode_cert" ELSE "off"]
    /\ log = [p \in Procs |-> <<>>]
    /\ io = [p \in Procs |-> <<>>]
    /\ sent = [p \in Procs |-> <<>>]
    /\ rcvd = [p \in Procs |-> <<>>]
    /\ chan = [p \in Procs |-> Idle]
    /\ exc = [p \in Procs |-> NoExc]
    /\ calls = [p \in Procs |-> 0]
    /\ \E c \in ByteSeqs(MaxFileLen), k \in ByteSeqs(MaxFileLen) :
         fs = [p \in Procs |->
                 IF p = Runner
                 THEN FsPut(FsPut(<<>>, cert_file_path(config[p].domain), File(c)),
                            key_file_path(config[p].domain), File(k))
                 ELSE <<>>]

NextEncode == \E p \in Procs : encode_cert(p) \/ encode_key(p)

EncodeSpec == InitEncode /\ [][NextEncode]_vars

\* base64.b64decode of a string of the alphabet: four characters give three
\* bytes, a final group padded with "=" gives one or two; << -1 >> for what
\* b64decode rejects.
B64Index(c) == CHOOSE n \in 0..63 : B64Alphabet[n + 1] = c

IsB64Char(c) == \E n \in 0..63 : B64Alphabet[n + 1] = c

Invalid == << -1 >>

RECURSIVE b64decode(_)
b64decode(cs) ==
    IF Len(cs) = 0 THEN <<>>
    ELSE IF Len(cs) < 4 \/ ~IsB64Char(cs[1]) \/ ~IsB64Char(cs[2]) THEN Invalid
    ELSE IF cs[3] = "=" THEN
        IF Len(cs) = 4 /\ cs[4] = "="
        THEN << (B64Index(cs[1]) * 64 + B64Index(cs[2])) \div 16 >>
        ELSE Invalid
    ELSE IF ~IsB64Char(cs[3]) THEN Invalid
    ELSE IF cs[4] = "=" THEN
        IF Len(cs) = 4
        THEN LET n == (B64Index(cs[1]) * 4096 + B64Index(cs[2]) * 64 + B64Index(cs[3])) \div 4
             IN  << n \div 256, n % 256 >>
        ELSE Invalid
    ELSE IF ~IsB64Char(cs[4]) THEN Invalid
    ELSE LET n == B64Index(cs[1]) * 262144 + B64Index(cs[2]) * 4096
                  + B64Index(cs[3]) * 64 + B64Index(cs[4])
             rest == b64decode(SubSeq(cs, 5, Len(cs)))
         IN  IF rest = Invalid THEN Invalid
             ELSE << n \div 65536, (n \div 256) % 256, n % 256 >> \o rest

CertData(p) == fs[p][cert_file_path(config[p].domain)].data
KeyData(p)  == fs[p][key_file_path(config[p].domain)].data

\* C11 (EncodeSpec): for every content of the two files, the empty one
\* included, decoding what base64_encode_file returned gives back the bytes
\* of the file; the certificate is encoded from the certificate file alone
\* and the key from the key file alone: base64_cert is there, and decodes to
\* the certificate, before the key is read, and is the same after it.
C11_Base64RoundTrip ==
    \A p \in Procs :
      /\ pc[p] \in {"encode_key", "copy_cert_and_key"} =>
           /\ b64decode(base64_cert[p]) = CertData(p)
           /\ Len(base64_cert[p]) = 4 * ((Len(CertData(p)) + 2) \div 3)
      /\ pc[p] = "encode_key" => base64_key[p] = <<>>
      /\ pc[p] = "copy_cert_and_key" =>
           /\ b64decode(base64_key[p]) = KeyData(p)
           /\ Len(base64_key[p]) = 4 * ((Len(KeyData(p)) + 2) \div 3)

C11_Witness ==
    \E p \in Procs :
      /\ pc[p] = "copy_cert_and_key"
      /\ CertData(p) = <<>> /\ base64_cert[p] = <<>>
      /\ KeyData(p) = << 255, 0 >> /\ base64_key[p] = << "/", "w", "A", "=" >>
      /\ b64decode(base64_key[p]) = << 255, 0 >>


\* C12: every request issued, PUT or POST, has a body whose
\* spec.certificate_url is "string:///" and the encoded certificate, whose
\* spec.private_key.clear_secret_info.url is "string:///" and the encoded
\* key, and which has disable_ocsp_stapling; the metadata of a PUT body is
\* name and namespace, that of a POST body is name alone; the spec of the
\* POST body equals the spec of the PUT body of the invocation.
C12_BodiesCarryTheCredential ==
    \A p \in Procs :
      \A i \in 1..Len(sent[p]) :
        LET r == sent[p][i]
        IN  /\ r.json.spec.certificate_url = << "string:///" >> \o base64_cert[p]
            /\ r.json.spec.private_key.clear_secret_info.url
                 = << "string:///" >> \o base64_key[p]
            /\ "disable_ocsp_stapling" \in DOMAIN r.json.spec
            /\ r.method = "PUT" =>
                 r.json.metadata = [name |-> config[p].cert_name,
                                    namespace |-> config[p].namespace]
            /\ r.method = "POST" =>
                 /\ DOMAIN r.json.metadata = {"name"}
                 /\ r.json.metadata.name = config[p].cert_name
                 /\ r.json.spec = sent[p][1].json.spec

C12_Witness ==
    \E p \in Procs :
      /\ Methods(sent[p]) = << "PUT", "POST" >>
      /\ sent[p][2].json.spec.certificate_url
           = << "string:///", "Q", "0", "V", "S", "V", "A", "=", "=" >>
      /\ sent[p][2].json.spec.private_key.clear_secret_info.url
           = << "string:///", "S", "0", "V", "Z" >>
      /\ DOMAIN sent[p][2].json.metadata = {"name"}
      /\ DOMAIN sent[p][1].json.metadata = {"name", "namespace"}

\* C13: every request of an invocation has the Authorization header
\* "APIToken " and the token of the environment, and the tenant header with
\* the tenant of the identity; the PUT goes to
\* /namespaces/{namespace}/certificates/{name}, the POST to
\* /namespaces/{namespace}/certificates on the same host, and the name in the
\* POST body is the name in the PUT address.
CollectionAddress(p) ==
    << "https://" >> \o config[p].tenant_name
    \o << ".console.ves.volterra.io/api/config/namespaces/" >> \o config[p].namespace
    \o << "/certificates" >>

C13_HeadersAndAddresses ==
    \A p \in Procs :
      \A i \in 1..Len(sent[p]) :
        LET r == sent[p][i]
        IN  /\ r.headers["Authorization"] = << "APIToken " >> \o environ[p].value
            /\ r.headers["x-volterra-apigw-tenant"] = config[p].tenant_name
            /\ r.headers = sent[p][1].headers
            /\ r.method = "PUT" => r.url = Address(p)
            /\ r.method = "POST" =>
                 /\ r.url = CollectionAddress(p)
                 /\ sent[p][1].url = r.url \o << "/" >> \o r.json.metadata.name

C13_Witness ==
    \E p \in Procs :
      /\ Methods(sent[p]) = << "PUT", "POST" >>
      /\ sent[p][2].headers["Authorization"] = << "APIToken ", "s3cr3t" >>
      /\ sent[p][2].headers["x-volterra-apigw-tenant"] = << "acme" >>
      /\ sent[p][1].url = << "https://", "acme",
                             ".console.ves.volterra.io/api/config/namespaces/", "prod",
                             "/certificates", "/", "cert2" >>
      /\ sent[p][2].url = << "https://", "acme",
                             ".console.ves.volterra.io/api/config/namespaces/", "prod",
                             "/certificates" >>

\* C14: a 404 to the PUT is not logged as an error: with the PUT answered 404
\* and the POST pending or answered 201 the invocation has logged no ERROR
\* record; an invocation has logged an ERROR record only if it ended Failed
\* or with the configuration error.
C14_NotFoundIsNoError ==
    \A p \in Procs :
      /\ (rcvd[p] # <<>> /\ IsResponse(rcvd[p][1], 404)
            /\ (Len(rcvd[p]) = 1 \/ IsResponse(rcvd[p][2], 201))) => ~HasError(p)
      /\ (Invoked(p) /\ HasError(p)) =>
           (Failed(p, exc[p]) \/ ConfigurationError(p))

C14_Witness ==
    \E p \in Procs :
      /\ Len(rcvd[p]) = 2 /\ IsResponse(rcvd[p][1], 404) /\ IsResponse(rcvd[p][2], 201)
      /\ Created(p) /\ ~HasError(p)
      /\ \E i \in 1..Len(log[p]) :
           log[p][i] = Info(<< "Certificate object not found; attempting to create a new object using POST" >>)


\* ---------------------------------------------- the run under fair progress
\* update_xc_lb_certificate runs on when it can: it is entered when main
\* reaches it and goes on when requests.put or requests.post has returned or
\* raised; every HTTP call in flight is sooner or later answered or fails.
reconcile(p) ==
    \/ update_xc_lb_certificate(p)
    \/ put_response(p)
    \/ post_response(p)

network(p) ==
    \/ remote_put(p)
    \/ remote_post(p)
    \/ remote_answer(p)
    \/ transport_failure(p)

FairSpec ==
    /\ Init
    /\ [][Next]_vars
    /\ \A p \in Procs : WF_vars(reconcile(p)) /\ WF_vars(network(p))

ExactlyOneOutcome(p) ==
    /\ Updated(p) \/ Created(p) \/ Failed(p, exc[p])
    /\ ~(Updated(p) /\ Created(p))
    /\ ~(Updated(p) /\ Failed(p, exc[p]))
    /\ ~(Created(p) /\ Failed(p, exc[p]))

\* C15 (FairSpec): every invocation with a non-empty token terminates, in
\* exactly one of Updated, Created and Failed; once a run has ended, it issues
\* no request and its outcome stays as it is.
C15_TerminatesInOneOutcome ==
    /\ \A p \in Procs :
         (Invoked(p) /\ TokenGiven(p)) ~> (Terminated(p) /\ ExactlyOneOutcome(p))
    /\ [][\A p \in Procs :
            Terminated(p) =>
              /\ pc'[p] = pc[p] /\ exc'[p] = exc[p] /\ log'[p] = log[p]
              /\ sent'[p] = sent[p] /\ rcvd'[p] = rcvd[p] /\ chan'[p] = chan[p]]_vars

C15_Witness ==
    \E p \in Procs :
      /\ Invoked(p) /\ TokenGiven(p) /\ Terminated(p)
      /\ Failed(p, exc[p]) /\ ~Updated(p) /\ ~Created(p)
      /\ Len(rcvd[p]) = 2 /\ chan[p] = Idle


\* C16: update_xc_lb_certificate is called only after copy_cert_and_key has
\* returned: in a run whose local copy fails (makedirs or either copy2) the
\* run ends there and no PUT or POST is issued, though both files have been
\* read and encoded.
CacheCert(p) == << "/cwd", "/" >> \o config[p].domain \o << "/", "cert.pem" >>
CacheKey(p)  == << "/cwd", "/" >> \o config[p].domain \o << "/", "privkey.pem" >>

LoggedInfo(p, prefix) ==
    \E i \in 1..Len(log[p]) : log[p][i].level = "INFO" /\ log[p][i].msg[1] = prefix

Encoded(p) ==
    Cardinality({ i \in 1..Len(log[p]) :
                    log[p][i].msg[1] = "Successfully Base64 encoded file: " }) = 2

CacheWritten(p) ==
    /\ CacheCert(p) \in DOMAIN fs[p] /\ CacheKey(p) \in DOMAIN fs[p]
    /\ fs[p][CacheCert(p)].data = CertData(p)
    /\ fs[p][CacheKey(p)].data = KeyData(p)

C16_CopyGatesReconcile ==
    \A p \in Procs :
      /\ Logged(p, "Error while copying files to ") =>
           /\ pc[p] = "raised" /\ exc[p].type = "OSError"
           /\ sent[p] = <<>> /\ ~Invoked(p)
           /\ Encoded(p)
           /\ ~CacheWritten(p)
      /\ (Invoked(p) \/ sent[p] # <<>>) =>
           /\ LoggedInfo(p, "Copied certificate to: ")
           /\ LoggedInfo(p, "Copied private key to: ")
           /\ CacheWritten(p)

C16_Witness ==
    \E p \in Procs :
      /\ Logged(p, "Error while copying files to ")
      /\ pc[p] = "raised" /\ sent[p] = <<>> /\ Encoded(p)
      /\ IoOps(p) = MainOps
      /\ CacheCert(p) \in DOMAIN fs[p] /\ CacheKey(p) \notin DOMAIN fs[p]

\* C17: the token is looked at only on entry to update_xc_lb_certificate: a
\* run that ends with the configuration error for an unset or empty XC_TOKEN
\* has run certbot, read both files and written the local copy, and has
\* issued no HTTP request.
C17_TokenCheckedLast ==
    \A p \in Procs :
      ((Invoked(p) /\ (~environ[p].set \/ environ[p].value = <<>>))
         \/ ConfigurationError(p)) =>
        /\ ConfigurationError(p)
        /\ IoOps(p) = MainOps
        /\ LoggedInfo(p, "Successfully obtained certificate with Certbot: ")
        /\ Encoded(p)
        /\ CacheWritten(p)
        /\ sent[p] = <<>>

C17_Witness ==
    \E p \in Procs :
      /\ ~environ[p].set /\ ConfigurationError(p)
      /\ IoOps(p) = MainOps /\ CacheWritten(p) /\ sent[p] = <<>>
      /\ fs[p][CacheCert(p)].data = << 67, 69, 82, 84 >>


\* ------------------------------------- two invocations at the same identity
\* The API serves a POST to the collection once per name: 201 and the object
\* created when there is none of that name, any other status and nothing
\* changed when there is one.
remote_post_rejecting(p) ==
    /\ Calling(p, "POST")
    /\ LET req  == Last(sent[p])
           addr == req.url \o << "/" >> \o req.json.metadata.name
       IN  IF addr \in DOMAIN remote
           THEN /\ remote' = remote
                /\ \E status_code \in Statuses \ {201}, text \in Texts :
                     chan' = [chan EXCEPT ![p] = Response(status_code, text)]
           ELSE /\ remote' = FsPut(remote, addr, req.json.spec)
                /\ chan' = [chan EXCEPT ![p] = Response(201, "created")]
    /\ UNCHANGED << configFile, environ, fs, pc, config, base64_cert, base64_key,
                    log, io, sent, rcvd, exc, calls >>

\* Two runs have reached update_xc_lb_certificate with the same configuration,
\* each with its own token and its own freshly issued credential; the API
\* holds no object.
InitConcurrent ==
    /\ configFile = [exists |-> FALSE, lines |-> <<>>]
    /\ environ \in [Procs -> Tokens]
    /\ remote = <<>>
    /\ config \in { [p \in Procs |-> c] : c \in Identities }
    /\ base64_cert \in [Procs -> { b64encode(c) : c \in CertContents }]
    /\ base64_key \in [Procs -> { b64encode(k) : k \in KeyContents }]
    /\ fs = [p \in Procs |-> <<>>]
    /\ pc = [p \in Procs |-> "update_xc_lb_certificate"]
    /\ log = [p \in Procs |-> <<>>]
    /\ io = [p \in Procs |-> <<>>]
    /\ sent = [p \in Procs |-> <<>>]
    /\ rcvd = [p \in Procs |-> <<>>]
    /\ chan = [p \in Procs |-> Idle]
    /\ exc = [p \in Procs |-> NoExc]
    /\ calls = [p \in Procs |-> 0]

NextConcurrent ==
    \E p \in Procs :
      \/ update_xc_lb_certificate(p)
      \/ put_response(p)
      \/ post_response(p)
      \/ remote_put(p)
      \/ remote_post_rejecting(p)

ConcurrentSpec == InitConcurrent /\ [][NextConcurrent]_vars

\* C18 (ConcurrentSpec): two invocations of update_xc_lb_certificate with the
\* same identity and a token each, interleaving in any order against an API
\* that holds no object at first, rejects a POST for an existing object with
\* a status other than 201, and never fails in transport: at most one ends
\* Created; an invocation whose PUT got 404 and whose POST was rejected ends
\* Failed having sent one PUT and one POST; and once both have terminated the
\* API holds the object, with the credential of one of the two.
PostRejected(p) ==
    /\ Len(rcvd[p]) = 2
    /\ rcvd[p][1].status_code = 404
    /\ rcvd[p][2].status_code # 201

C18_ConcurrentInvocations ==
    (\A p \in Procs : TokenGiven(p)) =>
      /\ Cardinality({ p \in Procs : Created(p) }) <= 1
      /\ \A p \in Procs :
           PostRejected(p) =>
             /\ Failed(p, Exc("Exception", << "Error creating new certificate: ",
                                              Str(rcvd[p][2].status_code), " - ",
                                              rcvd[p][2].text >>))
             /\ Methods(sent[p]) = << "PUT", "POST" >>
             /\ chan[p] = Idle
      /\ (\A p \in Procs : Terminated(p)) =>
           /\ DOMAIN remote = { Address(p) : p \in Procs }
           /\ \A a \in DOMAIN remote :
                remote[a] \in { ExpectedObject(p) : p \in Procs }

C18_Witness ==
    /\ TokenGiven("a") /\ TokenGiven("b")
    /\ base64_cert["a"] # base64_cert["b"]
    /\ Methods(sent["a"]) = << "PUT", "POST" >>
    /\ Created("b")
    /\ PostRejected("a") /\ rcvd["a"][2].status_code = 409
    /\ Terminated("a")
    /\ remote[Address("a")] = ExpectedObject("b")

=============================================================================
